---------------------------- MODULE Spec2Model ----------------------------
(***************************************************************************)
(* Model of the conversational sales assistant: the ConversationManager    *)
(* (src/src/conversation.py) behind the /chat endpoint (src/src/main.py).  *)
(*                                                                         *)
(* Texts are sequences of words (case kept); Python's `in` on strings is   *)
(* containment of a contiguous run of words, str.lower() lowers each word. *)
(* The wall-clock fields (created_at, a turn's timestamp) are left out:    *)
(* the order of the turns is their place in the list.                      *)
(***************************************************************************)
EXTENDS Integers, Sequences, FiniteSets, TLC

VARIABLES
    sessions,   \* ConversationManager.sessions: session id -> session object
    requests,   \* the /chat requests received so far, each with its handler's locals
    files,      \* logs/sessions/<session id>.json: session id -> snapshot
    engine,     \* the ProductSearchEngine: products and product_embeddings
    disk,       \* data/products.json and data/product_embeddings.json
    last        \* the engine call that returned last, with what it returned

vars == <<sessions, requests, files, engine, disk, last>>

conversation_vars == <<sessions, requests, files>>

search_vars == <<engine, disk, last>>

(***************************************************************************)
(* Bounds of the model.                                                    *)
(***************************************************************************)
MaxRequests == 2

SessionIds == {"s1", "s2"}

Messages == {"iphone", "yes please"}

(***************************************************************************)
(* Conversation states (conversation.py:40-44) and the funnel order.       *)
(***************************************************************************)
CONVERSATION_STATE_INITIAL == "initial"

CONVERSATION_STATE_INSURANCE == "insurance_upsell"

CONVERSATION_STATE_ACCESSORIES == "accessories_upsell"

CONVERSATION_STATE_WATCH == "watch_upsell"

CONVERSATION_STATE_FINAL == "final"

States ==
    { CONVERSATION_STATE_INITIAL, CONVERSATION_STATE_INSURANCE,
      CONVERSATION_STATE_ACCESSORIES, CONVERSATION_STATE_WATCH,
      CONVERSATION_STATE_FINAL }

(***************************************************************************)
(* Strings.                                                                *)
(***************************************************************************)
\* str.lower() on one word: the words of the model that hold capitals.
LowerTable ==
    [w \in { "Great!", "Let's", "Now,", "No", "Excellent", "Finally,",
             "Perfect!", "We've", "Is", "I", "Can", "Would", "You", "Like",
             "To", "Pair", "Your", "New", "Phone", "With", "A", "Watch?",
             "iPhone", "Pro", "Galaxy", "S24", "Apple", "Samsung", "Google",
             "OnePlus", "Unknown" } |->
        CASE w = "Great!" -> "great!"
          [] w = "Let's" -> "let's"
          [] w = "Now," -> "now,"
          [] w = "No" -> "no"
          [] w = "Excellent" -> "excellent"
          [] w = "Finally," -> "finally,"
          [] w = "Perfect!" -> "perfect!"
          [] w = "We've" -> "we've"
          [] w = "Is" -> "is"
          [] w = "I" -> "i"
          [] w = "Can" -> "can"
          [] w = "Would" -> "would"
          [] w = "You" -> "you"
          [] w = "Like" -> "like"
          [] w = "To" -> "to"
          [] w = "Pair" -> "pair"
          [] w = "Your" -> "your"
          [] w = "New" -> "new"
          [] w = "Phone" -> "phone"
          [] w = "With" -> "with"
          [] w = "A" -> "a"
          [] w = "Watch?" -> "watch?"
          [] w = "iPhone" -> "iphone"
          [] w = "Pro" -> "pro"
          [] w = "Galaxy" -> "galaxy"
          [] w = "S24" -> "s24"
          [] w = "Apple" -> "apple"
          [] w = "Samsung" -> "samsung"
          [] w = "Google" -> "google"
          [] w = "OnePlus" -> "oneplus"
          [] w = "Unknown" -> "unknown" ]

LowerWord(w) == IF w \in DOMAIN LowerTable THEN LowerTable[w] ELSE w

\* text.lower()
Lower(text) == [i \in 1..Len(text) |-> LowerWord(text[i])]

\* phrase in text
Contains(text, phrase) ==
    \E i \in 0..(Len(text) - Len(phrase)) :
        SubSeq(text, i + 1, i + Len(phrase)) = phrase

(***************************************************************************)
(* The literal trigger substrings of process_message (conversation.py      *)
(* lines 346, 348, 350, 352).                                              *)
(***************************************************************************)
InsuranceTrigger ==
    <<"Great!", "Let's", "get", "you", "set", "up", "with", "some", "insurance.">>

AccessoriesTrigger ==
    <<"Let's", "look", "at", "some", "accessories", "for", "your", "new", "phone.">>

WatchTrigger ==
    <<"would", "you", "like", "to", "pair", "your", "new", "phone", "with", "a", "watch?">>

FinalTrigger ==
    <<"Is", "there", "anything", "else", "I", "can", "help", "you", "with", "today?">>

(***************************************************************************)
(* The sentences the per-state prompts tell the model to answer with       *)
(* (_get_prompt_for_state).                                                *)
(***************************************************************************)
\* INITIAL, guideline 5 (line 139)
InsuranceHandoff == InsuranceTrigger

\* INSURANCE, guideline 2 (line 177): the customer chose a plan
AccessoriesAccept ==
    <<"Great!", "Now,", "let's", "look", "at", "some", "accessories", "for",
      "your", "new", "phone.">>

\* INSURANCE, guideline 3 (line 178): the customer declined
AccessoriesDecline == <<"No", "problem.">> \o AccessoriesTrigger

\* ACCESSORIES, guideline 4 (line 209)
WatchAccept == <<"Excellent", "choices!", "Finally,">> \o WatchTrigger

\* ACCESSORIES, guidelines 1 and 5 (lines 206, 210)
WatchDecline == <<"No", "problem.", "Finally,">> \o WatchTrigger

\* WATCH, guideline 2 (line 239)
FinalAccept ==
    <<"Perfect!", "We've", "added", "that", "to", "your", "order.">> \o FinalTrigger

\* WATCH, guideline 3 (line 240)
FinalDecline == <<"No", "problem", "at", "all.">> \o FinalTrigger

\* FINAL, guideline 1 (line 260)
Closing ==
    <<"Thank", "you", "for", "chatting", "with", "me", "today.", "Have", "a",
      "great", "day!">>

(***************************************************************************)
(* The completion client is external: the replies it is given to return    *)
(* here, by name, with their texts.                                        *)
(***************************************************************************)
Replies ==
    { "plain", "insurance", "acc_accept", "acc_decline", "watch", "final",
      "link", "watch_caps_final" }

ReplyText(r) ==
    CASE r = "plain" -> <<"Can", "you", "tell", "me", "more", "about", "storage?">>
      [] r = "insurance" -> InsuranceHandoff
      [] r = "acc_accept" -> AccessoriesAccept
      [] r = "acc_decline" -> AccessoriesDecline
      [] r = "watch" -> WatchAccept
      [] r = "final" -> FinalAccept
      [] r = "closing" -> Closing
      [] r = "link" ->
            <<"[iPhone", "16", "Pro](https://www.vodafone.co.uk/iphone-16-pro)">>
      [] r = "watch_caps_final" ->
            <<"Would", "You", "Like", "To", "Pair", "Your", "New", "Phone",
              "With", "A", "Watch?">> \o FinalTrigger

\* The fixed apology of the except clause (conversation.py:381).
Apology == "Sorry, I encountered an error. Please try again."

(***************************************************************************)
(* Upsell reference data (upsell_data.py): for each item the keys it has.  *)
(***************************************************************************)
INSURANCE_PLANS ==
    [k \in {"screen_damage", "full_cover", "damage_breakdown"} |->
        {"name", "price", "description"}]

ACCESSORIES ==
    [k \in {"case_protector", "earbuds", "charger", "screen_protector"} |->
        {"name", "price", "description"}]

WATCHES ==
    [k \in {"apple_watch_series_10", "apple_watch_ultra_2"} |->
        {"name", "price", "description"}]

\* The keys _get_prompt_for_state reads of each item of the state's dataset.
KeysRead(state) ==
    CASE state = CONVERSATION_STATE_INSURANCE -> {"name", "price", "description"}
      [] state = CONVERSATION_STATE_ACCESSORIES -> {"name", "price", "description"}
      [] state = CONVERSATION_STATE_WATCH -> {"name", "url", "price", "description"}
      [] OTHER -> {}

Dataset(state) ==
    CASE state = CONVERSATION_STATE_INSURANCE -> INSURANCE_PLANS
      [] state = CONVERSATION_STATE_ACCESSORIES -> ACCESSORIES
      [] state = CONVERSATION_STATE_WATCH -> WATCHES
      [] OTHER -> <<>>

\* _get_prompt_for_state raises KeyError: some item lacks a key the
\* template's context line reads.
PromptRaises(state) ==
    \E k \in DOMAIN Dataset(state) : ~(KeysRead(state) \subseteq Dataset(state)[k])

(***************************************************************************)
(* The search engine as /chat sees it: the engine built at startup, asked  *)
(* with the raw message.                                                   *)
(***************************************************************************)
search(query) ==
    CASE query = "iphone" -> <<"iPhone 16 Pro", "iPhone 16">>
      [] OTHER -> <<>>

(***************************************************************************)
(* The product search engine (product_search.py).  A product is named by   *)
(* an id; Product gives the fields of its entry in data/products.json.     *)
(* The vector of a product is written as the id of the product whose text  *)
(* was embedded.                                                           *)
(***************************************************************************)
MaxProducts == 3

ProductIds == {"p1", "p2", "p3", "p4"}

\* The products add_product is called with.
NewProducts == {"p3"}

Queries == {<<"iphone">>, <<"Samsung">>, <<>>}

\* The values of max_results: one result, and the default of five.
MaxResults == {1, 5}

Min(a, b) == IF a < b THEN a ELSE b

\* Product.__post_init__ (product_search.py:41-53): the brand from the name.
Brand(name) ==
    LET name_lower == Lower(name)
    IN  IF Contains(name_lower, <<"iphone">>) \/ Contains(name_lower, <<"apple">>)
            THEN "Apple"
        ELSE IF Contains(name_lower, <<"samsung">>) \/ Contains(name_lower, <<"galaxy">>)
            THEN "Samsung"
        ELSE IF Contains(name_lower, <<"google">>) \/ Contains(name_lower, <<"pixel">>)
            THEN "Google"
        ELSE IF Contains(name_lower, <<"oneplus">>)
            THEN "OnePlus"
        ELSE "Unknown"

\* Product(**product) (product_search.py:30-53) for the entries of the model.
Product(p) ==
    LET entry ==
            CASE p = "p1" -> [ name |-> <<"iPhone", "16", "Pro">>,
                               description |-> <<"pro", "camera">>,
                               features |-> << <<"5g">>, <<"pro", "camera">> >>,
                               device_cost |-> 30 ]
              [] p = "p2" -> [ name |-> <<"iPhone", "16">>,
                               description |-> <<"camera">>,
                               features |-> << <<"5g">> >>,
                               device_cost |-> 20 ]
              [] p = "p3" -> [ name |-> <<"Galaxy", "S24">>,
                               description |-> <<"android">>,
                               features |-> << >>,
                               device_cost |-> 40 ]
              [] p = "p4" -> [ name |-> <<"fold", "6">>,
                               description |-> <<"Samsung", "foldable">>,
                               features |-> << <<"Samsung", "knox">>,
                                               <<"Samsung", "pay">>,
                                               <<"Samsung", "dex">>,
                                               <<"Samsung", "health">>,
                                               <<"Samsung", "wallet">> >>,
                               device_cost |-> 30 ]
    IN  [ name |-> entry.name, description |-> entry.description,
          features |-> entry.features, brand |-> Brand(entry.name),
          device_cost |-> entry.device_cost ]

\* The fields of the Product dataclass (product_search.py:33-39).
ProductAttributes ==
    {"name", "description", "url", "storage_options", "brand", "features", "device_cost"}

\* As Score, without the bonus for a query word in the name.
Score_WithoutWordBonus(product, query_lower) ==
      (IF Contains(Lower(product.name), query_lower) THEN 5 ELSE 0)
    + (IF Contains(Lower(<<product.brand>>), query_lower) THEN 4 ELSE 0)
    + (IF Contains(Lower(product.description), query_lower) THEN 2 ELSE 0)
    + 3 * Cardinality({ i \in DOMAIN product.features :
                            Contains(Lower(product.features[i]), query_lower) })
    + (IF Lower(<<product.brand>>) = query_lower THEN 10 ELSE 0)

\* The score of one product in search_simple (product_search.py:165-186).
Score(product, query_lower) ==
      (IF Contains(Lower(product.name), query_lower) THEN 5 ELSE 0)
    + (IF Contains(Lower(<<product.brand>>), query_lower) THEN 4 ELSE 0)
    + (IF Contains(Lower(product.description), query_lower) THEN 2 ELSE 0)
    + 3 * Cardinality({ i \in DOMAIN product.features :
                            Contains(Lower(product.features[i]), query_lower) })
    + (IF Lower(<<product.brand>>) = query_lower THEN 10 ELSE 0)
    + (IF \E i \in DOMAIN query_lower :
                Contains(Lower(product.name), <<query_lower[i]>>)
            THEN 3 ELSE 0)

\* The cosine similarity of a query vector and the vector of a product
\* (product_search.py:214-216), in hundredths.
Similarity(query, vector) ==
    CASE query = <<"iphone">> ->
            (CASE vector = "p1" -> 90 [] vector = "p2" -> 90 [] vector = "p3" -> 40)
      [] query = <<"Samsung">> ->
            (CASE vector = "p1" -> 30 [] vector = "p2" -> 35 [] vector = "p3" -> 95)
      [] OTHER -> 10

\* list.sort(key=score, reverse=True): descending and stable
\* (product_search.py:194, 220).
InsertDescending(sorted, x) ==
    LET pos == Cardinality({ i \in DOMAIN sorted : sorted[i].score >= x.score })
    IN  SubSeq(sorted, 1, pos) \o <<x>> \o SubSeq(sorted, pos + 1, Len(sorted))

RECURSIVE SortDescending(_)
SortDescending(items) ==
    IF items = <<>> THEN <<>>
    ELSE InsertDescending(SortDescending(SubSeq(items, 1, Len(items) - 1)),
                          items[Len(items)])

\* items[:max_results]
Top(items, max_results) == SubSeq(items, 1, Min(max_results, Len(items)))

\* search_simple (product_search.py:156-195).
search_simple(products, query, max_results) ==
    IF query = <<>> \/ products = <<>> THEN <<>>
    ELSE LET scored == [ i \in 1..Len(products) |->
                            [ product |-> products[i],
                              score |-> Score(Product(products[i]), Lower(query)) ] ]
             results == SelectSeq(scored, LAMBDA x : x.score > 0)
         IN  Top(SortDescending(results), max_results)

\* ' '.join(features)
RECURSIVE Join(_)
Join(texts) == IF texts = <<>> THEN <<>> ELSE Head(texts) \o Join(Tail(texts))

\* get_searchable_text (product_search.py:59-61)
get_searchable_text(product) ==
    product.name \o <<product.brand>> \o product.description \o Join(product.features)

\* The data-usage bands of search_by_preferences (product_search.py:273-277).
DataUsageBands == {"unlimited", "heavy", "light"}

\* The budget part of the score (product_search.py:254-269): reading
\* product.monthly_cost raises AttributeError, which the bare except drops.
BudgetScore(product, preferences) ==
    IF "monthly_cost" \notin ProductAttributes THEN 0
    ELSE IF 0 <= product.monthly_cost /\ product.monthly_cost <= preferences.budget_max
        THEN 5
    ELSE IF product.monthly_cost > preferences.budget_max
        THEN 0 - 5
    ELSE 0

\* The score of one product in search_by_preferences without the parts that
\* read data_allowance and storage (product_search.py:247-252, 279-282).
PreferenceScore(product, preferences) ==
      (IF preferences.brand_preference # <<>>
            /\ Lower(<<product.brand>>) = Lower(preferences.brand_preference)
          THEN 10 ELSE 0)
    + BudgetScore(product, preferences)
    + 4 * Cardinality({ i \in DOMAIN preferences.features :
                            Contains(Lower(get_searchable_text(product)),
                                     Lower(preferences.features[i])) })

\* Whether scoring a product raises AttributeError (product_search.py:273,
\* 275, 277 read product.data_allowance; 286 reads product.storage).
PreferenceScoreRaises(preferences) ==
    \/ /\ LowerWord(preferences.data_usage) \in DataUsageBands
       /\ "data_allowance" \notin ProductAttributes
    \/ /\ preferences.storage_preference # ""
       /\ "storage" \notin ProductAttributes

\* search_by_preferences (product_search.py:239-297).  A field that is
\* absent is written as the value preferences.get gives for it.
search_by_preferences(products, preferences, max_results) ==
    IF products = <<>>
        THEN [raised |-> FALSE, result |-> <<>>]
    ELSE IF PreferenceScoreRaises(preferences)
        THEN [raised |-> TRUE, result |-> <<>>]
    ELSE LET scored == [ i \in 1..Len(products) |->
                            [ product |-> products[i],
                              score |-> PreferenceScore(Product(products[i]), preferences) ] ]
             results == SelectSeq(scored, LAMBDA x : x.score > 0)
         IN  [raised |-> FALSE, result |-> Top(SortDescending(results), max_results)]

\* self.product_embeddings = None (product_search.py:70)
NoEmbeddings == [loaded |-> FALSE, vectors |-> <<>>]

\* The ranking by vectors of search_advanced (product_search.py:210-229).
RankByVectors(e, query, max_results) ==
    LET vectors == e.product_embeddings.vectors
        similarities == [ i \in 1..Len(vectors) |->
                            [ score |-> Similarity(query, vectors[i]), idx |-> i ] ]
        top == Top(SortDescending(similarities), max_results)
        kept == SelectSeq(top, LAMBDA x : x.idx <= Len(e.products))
    IN  [ j \in 1..Len(kept) |->
            [ product |-> e.products[kept[j].idx], score |-> kept[j].score ] ]

\* As search_advanced, were a failed query embedding answered with nothing.
search_advanced_NoFallback(e, query, max_results, provider_ok) ==
    IF e.products = <<>> \/ ~e.product_embeddings.loaded
        THEN search_simple(e.products, query, max_results)
    ELSE IF ~provider_ok
        THEN <<>>
    ELSE RankByVectors(e, query, max_results)

\* As search_advanced, were the query embedded before the test for vectors
\* and a failure answered with nothing.
search_advanced_EmbedsFirst(e, query, max_results, provider_ok) ==
    IF ~provider_ok
        THEN <<>>
    ELSE IF e.products = <<>> \/ ~e.product_embeddings.loaded
        THEN search_simple(e.products, query, max_results)
    ELSE RankByVectors(e, query, max_results)

\* search_advanced (product_search.py:197-233); provider_ok tells whether
\* the embedding of the query is obtained.
search_advanced(e, query, max_results, provider_ok) ==
    IF e.products = <<>> \/ ~e.product_embeddings.loaded
        THEN search_simple(e.products, query, max_results)
    ELSE IF ~provider_ok
        THEN search_simple(e.products, query, max_results)
    ELSE RankByVectors(e, query, max_results)

\* _initialize_search (product_search.py:105-154); provider_ok tells whether
\* the embeddings of the product texts are obtained.  An unreadable cache
\* file behaves as a missing one (lines 124-125).
initialize_search(e, d, provider_ok) ==
    IF e.products = <<>>
        THEN [engine |-> e, disk |-> d, raised |-> FALSE]
    ELSE IF d.cache.exists /\ Len(d.cache.vectors) = Len(e.products)
        THEN [ engine |-> [e EXCEPT !.product_embeddings =
                                [loaded |-> TRUE, vectors |-> d.cache.vectors]],
               disk |-> d, raised |-> FALSE ]
    ELSE IF provider_ok
        THEN [ engine |-> [e EXCEPT !.product_embeddings =
                                [loaded |-> TRUE, vectors |-> e.products]],
               disk |-> [d EXCEPT !.cache =
                                [exists |-> TRUE, vectors |-> e.products]],
               raised |-> FALSE ]
    ELSE [engine |-> e, disk |-> d, raised |-> TRUE]

\* load_products (product_search.py:79-103).
load_products(e, d, provider_ok) ==
    IF d.catalog.kind = "missing"
        THEN [engine |-> e, disk |-> d, ret |-> FALSE]
    ELSE IF d.catalog.kind = "corrupt"
        THEN [engine |-> [e EXCEPT !.products = <<>>], disk |-> d, ret |-> FALSE]
    ELSE LET r == initialize_search([e EXCEPT !.products = d.catalog.data],
                                    d, provider_ok)
         IN  IF r.raised
                THEN [ engine |-> [r.engine EXCEPT !.products = <<>>],
                       disk |-> r.disk, ret |-> FALSE ]
                ELSE [engine |-> r.engine, disk |-> r.disk, ret |-> TRUE]

\* ProductSearchEngine.__init__ (product_search.py:67-77).
ProductSearchEngine(d, provider_ok, provider_ok_again) ==
    LET r == load_products([products |-> <<>>, product_embeddings |-> NoEmbeddings],
                           d, provider_ok)
    IN  initialize_search(r.engine, r.disk, provider_ok_again)

\* As refresh_index, were the catalog file read again first.
refresh_index_ReloadsCatalog(e, d, provider_ok) ==
    LET r == load_products(e, d, provider_ok)
    IN  [engine |-> r.engine, disk |-> r.disk, raised |-> FALSE]

\* refresh_index (product_search.py:348-351).
refresh_index(e, d, provider_ok) == initialize_search(e, d, provider_ok)

\* add_product (product_search.py:353-365) of a well-formed entry.
add_product(e, d, p, provider_ok) ==
    LET r == initialize_search([e EXCEPT !.products = Append(@, p)], d, provider_ok)
    IN  [engine |-> r.engine, disk |-> r.disk, ret |-> ~r.raised]

\* The contents data/products.json takes.
CatalogFiles ==
    { [kind |-> "missing", data |-> <<>>],
      [kind |-> "corrupt", data |-> <<>>],
      [kind |-> "ok", data |-> <<"p1", "p2">>],
      [kind |-> "ok", data |-> <<"p3", "p1">>] }

\* The contents data/product_embeddings.json has at startup.
CacheFiles ==
    { [exists |-> FALSE, vectors |-> <<>>],
      [exists |-> TRUE, vectors |-> <<"p1", "p2">>] }

\* The catalog file as a call that does not read it sees it.
NotRead == [kind |-> "missing", data |-> <<>>]

\* The record of the engine call that returned last.
\* before is what is kept of the call that returned before it.
Call(op, query, max_results, provider_failed, ret, raised, result, file, catalog, before) ==
    [ op |-> op, query |-> query, max_results |-> max_results,
      provider_failed |-> provider_failed, ret |-> ret, raised |-> raised,
      result |-> result, file |-> file, catalog |-> catalog, before |-> before ]

\* Nothing kept of the call before.
NoCall ==
    [ op |-> "", query |-> <<>>, max_results |-> 0, provider_failed |-> FALSE,
      result |-> <<>> ]

\* What a search keeps of the call that returned before it.
Kept(call) ==
    [ op |-> call.op, query |-> call.query, max_results |-> call.max_results,
      provider_failed |-> call.provider_failed, result |-> call.result ]

\* The deployment the /chat model runs on: a catalog of two products, no cache.
DeployedDisk ==
    [ catalog |-> [kind |-> "ok", data |-> <<"p1", "p2">>],
      cache |-> [exists |-> FALSE, vectors |-> <<>>] ]

\* As NextState, but a reply without any trigger sends the session back to
\* the start of the funnel.
NextState_ResetsWithoutTrigger(state, response_text) ==
    IF Contains(response_text, InsuranceTrigger)
        THEN CONVERSATION_STATE_INSURANCE
    ELSE IF Contains(response_text, AccessoriesTrigger)
        THEN CONVERSATION_STATE_ACCESSORIES
    ELSE IF Contains(Lower(response_text), WatchTrigger)
        THEN CONVERSATION_STATE_WATCH
    ELSE IF Contains(response_text, FinalTrigger)
        THEN CONVERSATION_STATE_FINAL
    ELSE CONVERSATION_STATE_INITIAL

\* As NextState, were the four tests made in the opposite order.
NextState_LastTriggerFirst(state, response_text) ==
    IF Contains(response_text, FinalTrigger)
        THEN CONVERSATION_STATE_FINAL
    ELSE IF Contains(Lower(response_text), WatchTrigger)
        THEN CONVERSATION_STATE_WATCH
    ELSE IF Contains(response_text, AccessoriesTrigger)
        THEN CONVERSATION_STATE_ACCESSORIES
    ELSE IF Contains(response_text, InsuranceTrigger)
        THEN CONVERSATION_STATE_INSURANCE
    ELSE state

(***************************************************************************)
(* The state transition of process_message (conversation.py:345-353).      *)
(***************************************************************************)
NextState(state, response_text) ==
    IF Contains(response_text, InsuranceTrigger)
        THEN CONVERSATION_STATE_INSURANCE
    ELSE IF Contains(response_text, AccessoriesTrigger)
        THEN CONVERSATION_STATE_ACCESSORIES
    ELSE IF Contains(Lower(response_text), WatchTrigger)
        THEN CONVERSATION_STATE_WATCH
    ELSE IF Contains(response_text, FinalTrigger)
        THEN CONVERSATION_STATE_FINAL
    ELSE state

\* re.search(r'\[.*?\]\(https?://', response_text): a word opening a bracket,
\* later (or the same) a word closing it on a http(s) link.
OpensBracket == {"[iPhone"}

ClosesOnLink == {"Pro](https://www.vodafone.co.uk/iphone-16-pro)"}

HasProductLink(text) ==
    \E i \in 1..Len(text) : \E j \in i..Len(text) :
        text[i] \in OpensBracket /\ text[j] \in ClosesOnLink

(***************************************************************************)
(* Sessions.                                                               *)
(***************************************************************************)
\* UserPreferences(): every field absent (conversation.py:47-60).
UserPreferences ==
    [ budget_min |-> "None", budget_max |-> "None", brand_preference |-> "None",
      storage_preference |-> "None", data_usage |-> "None",
      contract_length |-> "None", features |-> <<>> ]

\* ConversationSession.__init__ (conversation.py:79-85)
ConversationSession(session_id) ==
    [ session_id |-> session_id, turns |-> <<>>, preferences |-> UserPreferences,
      memory |-> <<>>, state |-> CONVERSATION_STATE_INITIAL ]

\* ConversationTurn (conversation.py:63-73)
ConversationTurn(role, content, recommendations) ==
    [ role |-> role, content |-> content, recommendations |-> recommendations ]

\* ConversationSession.add_turn (conversation.py:87-95)
add_turn(session, role, content, recommendations) ==
    [session EXCEPT !.turns = Append(@, ConversationTurn(role, content, recommendations))]

\* As get_or_create_session, without the test for a session already there.
get_or_create_session_AlwaysNew(ss, session_id) ==
    [s \in DOMAIN ss \cup {session_id} |->
        IF s = session_id THEN ConversationSession(session_id) ELSE ss[s]]

\* _get_or_create_session (conversation.py:289-294): the sessions map after it.
get_or_create_session(ss, session_id) ==
    IF session_id \notin DOMAIN ss
        THEN [s \in DOMAIN ss \cup {session_id} |->
                IF s = session_id THEN ConversationSession(session_id) ELSE ss[s]]
        ELSE ss

\* As session_data, were only the two turns of the call written.
session_data_NewTurnsOnly(session) ==
    [ session_id |-> session.session_id, state |-> session.state,
      preferences |-> session.preferences,
      turns |-> SubSeq(session.turns, Len(session.turns) - 1, Len(session.turns)) ]

\* The session_data of _save_session_to_file (conversation.py:298-304).
session_data(session) ==
    [ session_id |-> session.session_id, state |-> session.state,
      preferences |-> session.preferences, turns |-> session.turns ]

WriteFile(fs, session_id, data) ==
    [s \in DOMAIN fs \cup {session_id} |-> IF s = session_id THEN data ELSE fs[s]]

(***************************************************************************)
(* Requests.  A request record holds the locals of its process_message     *)
(* call and, for the properties, what the call saw and did.                *)
(***************************************************************************)
NullResult == [returned |-> FALSE, response |-> "", keys |-> {}, recommendations |-> <<>>]

\* The session as a call finds it: an unseen id is found as a new session.
View(ss, session_id) ==
    IF session_id \in DOMAIN ss
        THEN [state |-> ss[session_id].state, turns |-> ss[session_id].turns]
        ELSE [state |-> CONVERSATION_STATE_INITIAL, turns |-> <<>>]

NewRequest(session_id, message, sequential) ==
    [ sid |-> session_id, msg |-> message, pc |-> "queued",
      recommendations |-> <<>>, history |-> <<>>, chain |-> "",
      response_text |-> "", result |-> NullResult,
      \* for the properties
      sequential |-> sequential, outcome |-> "", pre |-> View(<<>>, session_id),
      searched |-> FALSE,
      user_at |-> 0, assistant_at |-> 0, state_after |-> "" ]

\* As SearchesCatalog, were the search made in every state.
SearchesCatalog_InEveryState(state) == TRUE

\* The test that guards the search (conversation.py:326).
SearchesCatalog(state) == state = CONVERSATION_STATE_INITIAL

\* As EventLoopIdle, were the handler run on a thread of a pool.
EventLoopNeverBusy == TRUE

\* async def chat (main.py:106-116) calls process_message without awaiting
\* anything: the event loop runs one call to its end before the next.
EventLoopIdle == \A q \in DOMAIN requests : requests[q].pc \in {"queued", "done"}

\* The loop starts the handlers in the order the requests became ready.
Oldest(q) == \A p \in DOMAIN requests : p < q => requests[p].pc # "queued"

Init ==
    /\ sessions = <<>>
    /\ requests = <<>>
    /\ files = <<>>
    /\ engine = ProductSearchEngine(DeployedDisk, TRUE, TRUE).engine
    /\ disk = ProductSearchEngine(DeployedDisk, TRUE, TRUE).disk
    /\ last = Call("__init__", <<>>, 0, FALSE, TRUE, FALSE, <<>>,
                   DeployedDisk.catalog, DeployedDisk.catalog.data, NoCall)

\* A /chat request arrives (main.py:106-108).
Receive(session_id, message) ==
    /\ Len(requests) < MaxRequests
    /\ requests' = Append(requests,
            NewRequest(session_id, message,
                \A q \in DOMAIN requests :
                    requests[q].sid = session_id => requests[q].pc = "done"))
    /\ UNCHANGED <<sessions, files>>
    /\ UNCHANGED search_vars

\* process_message up to the chain (conversation.py:315-334): the session,
\* the search in the initial state, the history, the prompt of the state.
Begin(q) ==
    /\ requests[q].pc = "queued"
    /\ Oldest(q)
    /\ EventLoopIdle
    /\ LET ss == get_or_create_session(sessions, requests[q].sid)
           session == ss[requests[q].sid]
       IN /\ ~PromptRaises(session.state)
          /\ sessions' = ss
          /\ requests' = [requests EXCEPT ![q] =
                [@ EXCEPT !.pc = "invoke",
                          !.recommendations =
                              IF SearchesCatalog(session.state)
                                  THEN search(requests[q].msg) ELSE <<>>,
                          !.searched = SearchesCatalog(session.state),
                          !.history = session.memory,
                          !.chain = session.state,
                          !.pre = View(sessions, requests[q].sid)]]
    /\ UNCHANGED files
    /\ UNCHANGED search_vars

\* The same lines when _get_prompt_for_state raises: the except clause
\* (conversation.py:379-381) returns the apology.
BeginRaises(q) ==
    /\ requests[q].pc = "queued"
    /\ Oldest(q)
    /\ EventLoopIdle
    /\ LET ss == get_or_create_session(sessions, requests[q].sid)
           session == ss[requests[q].sid]
       IN /\ PromptRaises(session.state)
          /\ sessions' = ss
          /\ requests' = [requests EXCEPT ![q] =
                [@ EXCEPT !.pc = "done",
                          !.outcome = "prompt_error",
                          !.searched = SearchesCatalog(session.state),
                          !.pre = View(sessions, requests[q].sid),
                          !.result = [returned |-> TRUE, response |-> Apology,
                                      keys |-> {"response"},
                                      recommendations |-> <<>>]]]
    /\ UNCHANGED files
    /\ UNCHANGED search_vars

\* chain.invoke returns a reply (conversation.py:337-343).
CompletionReturns(q, r) ==
    /\ requests[q].pc = "invoke"
    /\ requests' = [requests EXCEPT ![q] =
            [@ EXCEPT !.pc = "transition", !.response_text = r]]
    /\ UNCHANGED <<sessions, files>>
    /\ UNCHANGED search_vars

\* As CompletionFails, had the user turn been appended before the call of
\* the chain: the failed call leaves it behind.
CompletionFails_KeepsUserTurn(q) ==
    /\ requests[q].pc = "invoke"
    /\ sessions' = [sessions EXCEPT ![requests[q].sid] =
            [@ EXCEPT !.turns = Append(@, [role |-> "user", content |-> requests[q].msg,
                                           recommendations |-> <<>>])]]
    /\ requests' = [requests EXCEPT ![q] =
            [@ EXCEPT !.pc = "done",
                      !.outcome = "completion_error",
                      !.result = [returned |-> TRUE,
                                  response |-> "Sorry, I encountered an error. Please try again.",
                                  keys |-> {"response"},
                                  recommendations |-> <<>>]]]
    /\ UNCHANGED files
    /\ UNCHANGED search_vars

\* chain.invoke raises (conversation.py:337-341, 379-381).
CompletionFails(q) ==
    /\ requests[q].pc = "invoke"
    /\ requests' = [requests EXCEPT ![q] =
            [@ EXCEPT !.pc = "done",
                      !.outcome = "completion_error",
                      !.result = [returned |-> TRUE, response |-> Apology,
                                  keys |-> {"response"},
                                  recommendations |-> <<>>]]]
    /\ UNCHANGED <<sessions, files>>
    /\ UNCHANGED search_vars

\* The state transition and the memory (conversation.py:345-356).
Transition(q) ==
    /\ requests[q].pc = "transition"
    /\ LET sid == requests[q].sid
           next == NextState(sessions[sid].state, ReplyText(requests[q].response_text))
       IN /\ sessions' = [sessions EXCEPT ![sid] =
                [@ EXCEPT !.state = next,
                          !.memory = Append(@, <<requests[q].msg,
                                                 requests[q].response_text>>)]]
          /\ requests' = [requests EXCEPT ![q] =
                [@ EXCEPT !.pc = "add_user", !.state_after = next]]
    /\ UNCHANGED files
    /\ UNCHANGED search_vars

\* session.add_turn('user', message) (conversation.py:363)
AddUserTurn(q) ==
    /\ requests[q].pc = "add_user"
    /\ LET sid == requests[q].sid
       IN /\ sessions' = [sessions EXCEPT ![sid] =
                add_turn(@, "user", requests[q].msg, <<>>)]
          /\ requests' = [requests EXCEPT ![q] =
                [@ EXCEPT !.pc = "add_assistant",
                          !.user_at = Len(sessions[sid].turns) + 1]]
    /\ UNCHANGED files
    /\ UNCHANGED search_vars

\* As logged_recommendations, without the test for a product link.
logged_recommendations_Always(response_text, recommendations) == recommendations

\* The recommendations the assistant turn logs (conversation.py:359-361).
logged_recommendations(response_text, recommendations) ==
    IF HasProductLink(response_text) THEN recommendations ELSE <<>>

\* session.add_turn('assistant', response_text, ...) (conversation.py:364)
AddAssistantTurn(q) ==
    /\ requests[q].pc = "add_assistant"
    /\ LET sid == requests[q].sid
       IN /\ sessions' = [sessions EXCEPT ![sid] =
                add_turn(@, "assistant", requests[q].response_text,
                    logged_recommendations(ReplyText(requests[q].response_text),
                                           requests[q].recommendations))]
          /\ requests' = [requests EXCEPT ![q] =
                [@ EXCEPT !.pc = "save",
                          !.assistant_at = Len(sessions[sid].turns) + 1]]
    /\ UNCHANGED files
    /\ UNCHANGED search_vars

\* _save_session_to_file and the return (conversation.py:366-377).
SaveAndReturn(q) ==
    /\ requests[q].pc = "save"
    /\ files' = WriteFile(files, requests[q].sid, session_data(sessions[requests[q].sid]))
    /\ requests' = [requests EXCEPT ![q] =
            [@ EXCEPT !.pc = "done",
                      !.outcome = "ok",
                      !.result = [returned |-> TRUE,
                                  response |-> requests[q].response_text,
                                  keys |-> {"response", "recommendations"},
                                  recommendations |-> requests[q].recommendations]]]
    /\ UNCHANGED sessions
    /\ UNCHANGED search_vars

\* _save_session_to_file raises (makedirs or open fails, nothing is
\* written): the except clause returns the apology
\* (conversation.py:366, 379-381).
SaveFails(q) ==
    /\ requests[q].pc = "save"
    /\ files' = files
    /\ requests' = [requests EXCEPT ![q] =
            [@ EXCEPT !.pc = "done",
                      !.outcome = "persist_error",
                      !.result = [returned |-> TRUE, response |-> Apology,
                                  keys |-> {"response"},
                                  recommendations |-> <<>>]]]
    /\ UNCHANGED sessions
    /\ UNCHANGED search_vars

\* The error of get_session_info for an unknown id (conversation.py:386).
SessionNotFound == [error |-> "Session not found"]

\* As get_session_info, were the session looked up with _get_or_create_session.
get_session_info_CreatesSession(ss, session_id) ==
    LET created == get_or_create_session(ss, session_id)
    IN  [ result |-> [ session_id |-> session_id,
                       turns |-> Len(created[session_id].turns),
                       preferences |-> created[session_id].preferences ],
          sessions |-> created ]

\* get_session_info (conversation.py:383-394): what it returns and the
\* sessions map after it.
get_session_info(ss, session_id) ==
    IF session_id \notin DOMAIN ss
        THEN [result |-> SessionNotFound, sessions |-> ss]
        ELSE [ result |-> [ session_id |-> session_id,
                            turns |-> Len(ss[session_id].turns),
                            preferences |-> ss[session_id].preferences ],
               sessions |-> ss ]

\* GET /session/{session_id} (main.py:149-152)
GetSessionInfo(session_id) ==
    /\ EventLoopIdle
    /\ sessions' = get_session_info(sessions, session_id).sessions
    /\ UNCHANGED <<requests, files>>
    /\ UNCHANGED search_vars

Next ==
    \/ \E session_id \in SessionIds : GetSessionInfo(session_id)
    \/ \E session_id \in SessionIds, message \in Messages : Receive(session_id, message)
    \/ \E q \in DOMAIN requests : Begin(q)
    \/ \E q \in DOMAIN requests : BeginRaises(q)
    \/ \E q \in DOMAIN requests, r \in Replies : CompletionReturns(q, r)
    \/ \E q \in DOMAIN requests : CompletionFails(q)
    \/ \E q \in DOMAIN requests : Transition(q)
    \/ \E q \in DOMAIN requests : AddUserTurn(q)
    \/ \E q \in DOMAIN requests : AddAssistantTurn(q)
    \/ \E q \in DOMAIN requests : SaveAndReturn(q)
    \/ \E q \in DOMAIN requests : SaveFails(q)

Spec == Init /\ [][Next]_vars

(***************************************************************************)
(* The funnel as documented: the order of the states, and for each state   *)
(* the sentences its prompt prescribes for moving on.                      *)
(***************************************************************************)
FunnelOrder ==
    << CONVERSATION_STATE_INITIAL, CONVERSATION_STATE_INSURANCE,
       CONVERSATION_STATE_ACCESSORIES, CONVERSATION_STATE_WATCH,
       CONVERSATION_STATE_FINAL >>

Successor(state) ==
    CASE state = CONVERSATION_STATE_INITIAL -> CONVERSATION_STATE_INSURANCE
      [] state = CONVERSATION_STATE_INSURANCE -> CONVERSATION_STATE_ACCESSORIES
      [] state = CONVERSATION_STATE_ACCESSORIES -> CONVERSATION_STATE_WATCH
      [] state = CONVERSATION_STATE_WATCH -> CONVERSATION_STATE_FINAL
      [] OTHER -> state

HandoffPhrases(state) ==
    CASE state = CONVERSATION_STATE_INITIAL -> {InsuranceHandoff}
      [] state = CONVERSATION_STATE_INSURANCE -> {AccessoriesAccept, AccessoriesDecline}
      [] state = CONVERSATION_STATE_ACCESSORIES -> {WatchAccept, WatchDecline}
      [] state = CONVERSATION_STATE_WATCH -> {FinalAccept, FinalDecline}
      [] OTHER -> {}

Triggers == {InsuranceTrigger, AccessoriesTrigger, WatchTrigger, FinalTrigger}

\* The text holds a trigger of the table, in any case of letters.
HoldsSomeTrigger(text) == \E t \in Triggers : Contains(Lower(text), Lower(t))

\* The text holds the trigger that belongs to the state.
HoldsOwnTrigger(state, text) ==
    CASE state = CONVERSATION_STATE_INITIAL -> Contains(text, InsuranceTrigger)
      [] state = CONVERSATION_STATE_INSURANCE -> Contains(text, AccessoriesTrigger)
      [] state = CONVERSATION_STATE_ACCESSORIES -> Contains(Lower(text), WatchTrigger)
      [] state = CONVERSATION_STATE_WATCH -> Contains(text, FinalTrigger)
      [] OTHER -> FALSE

\* Request q applies its reply to the session in this step.
Transitions(q) == requests[q].pc = "transition" /\ requests'[q].pc = "add_user"

RequestsOf(session_id) == {q \in DOMAIN requests : requests[q].sid = session_id}

(***************************************************************************)
(* C1: once a session's state is FINAL no later process_message call       *)
(* changes it.                                                             *)
(***************************************************************************)
C1_FinalIsAbsorbing ==
    [][\A s \in DOMAIN sessions :
          sessions[s].state = CONVERSATION_STATE_FINAL
              => sessions'[s].state = CONVERSATION_STATE_FINAL]_vars

(***************************************************************************)
(* C2: every state change goes from a state to its immediate successor in  *)
(* the funnel, and a reply without the trigger of the current state leaves *)
(* the state unchanged.                                                    *)
(***************************************************************************)
C2_OnlyOwnTriggerAdvances ==
    [][\A q \in DOMAIN requests :
          Transitions(q) =>
              LET cur == sessions[requests[q].sid].state
                  new == sessions'[requests[q].sid].state
                  text == ReplyText(requests[q].response_text)
              IN /\ new # cur => cur # CONVERSATION_STATE_FINAL /\ new = Successor(cur)
                 /\ ~HoldsOwnTrigger(cur, text) => new = cur]_vars

(***************************************************************************)
(* C3: in each of the four non-final states a reply holding the handoff    *)
(* sentence of that state leaves the session in the next state.            *)
(***************************************************************************)
C3_HandoffReachesNextState ==
    [][\A q \in DOMAIN requests :
          Transitions(q) =>
              LET cur == sessions[requests[q].sid].state
                  text == ReplyText(requests[q].response_text)
              IN (\E p \in HandoffPhrases(cur) : Contains(text, p))
                    => sessions'[requests[q].sid].state = Successor(cur)]_vars

(***************************************************************************)
(* C4: a reply holding none of the trigger phrases leaves the session's    *)
(* state unchanged, in every state.                                        *)
(***************************************************************************)
C4_NoTriggerKeepsState ==
    [][\A q \in DOMAIN requests :
          (Transitions(q) /\ ~HoldsSomeTrigger(ReplyText(requests[q].response_text)))
              => sessions'[requests[q].sid].state = sessions[requests[q].sid].state]_vars

\* A call in a later state of the funnel has applied a reply without triggers.
C4_Witness ==
    \E q \in DOMAIN requests :
        /\ requests[q].pc = "add_user"
        /\ ~HoldsSomeTrigger(ReplyText(requests[q].response_text))
        /\ requests[q].chain = CONVERSATION_STATE_ACCESSORIES
        /\ sessions[requests[q].sid].state = CONVERSATION_STATE_ACCESSORIES

(***************************************************************************)
(* The scripted funnel: every completion succeeds and answers with a       *)
(* handoff sentence of the prompt it was given, every snapshot is written. *)
(***************************************************************************)
FunnelRequests == 5

ScriptedReply(state) ==
    CASE state = CONVERSATION_STATE_INITIAL -> "insurance"
      [] state = CONVERSATION_STATE_INSURANCE -> "acc_decline"
      [] state = CONVERSATION_STATE_ACCESSORIES -> "watch"
      [] state = CONVERSATION_STATE_WATCH -> "final"
      [] OTHER -> "closing"

FunnelReceive(session_id, message) ==
    /\ Len(requests) < FunnelRequests
    /\ requests' = Append(requests,
            NewRequest(session_id, message,
                \A q \in DOMAIN requests :
                    requests[q].sid = session_id => requests[q].pc = "done"))
    /\ UNCHANGED <<sessions, files>>
    /\ UNCHANGED search_vars

ScriptedCompletion(q) ==
    /\ requests[q].pc = "invoke"
    /\ requests' = [requests EXCEPT ![q] =
            [@ EXCEPT !.pc = "transition",
                      !.response_text = ScriptedReply(requests[q].chain)]]
    /\ UNCHANGED <<sessions, files>>
    /\ UNCHANGED search_vars

NextFunnel ==
    \/ \E session_id \in SessionIds, message \in Messages :
            FunnelReceive(session_id, message)
    \/ \E q \in DOMAIN requests : Begin(q)
    \/ \E q \in DOMAIN requests : BeginRaises(q)
    \/ \E q \in DOMAIN requests : ScriptedCompletion(q)
    \/ \E q \in DOMAIN requests : Transition(q)
    \/ \E q \in DOMAIN requests : AddUserTurn(q)
    \/ \E q \in DOMAIN requests : AddAssistantTurn(q)
    \/ \E q \in DOMAIN requests : SaveAndReturn(q)

SpecFunnel == Init /\ [][NextFunnel]_vars

(***************************************************************************)
(* C5: a new session driven with the scripted replies walks the funnel one *)
(* state per message: after n answered messages it is in the state number  *)
(* n + 1 of the order, and stays in FINAL from the fourth on.              *)
(***************************************************************************)
C5_FunnelOneStepPerMessage ==
    \A s \in DOMAIN sessions :
        (\A q \in RequestsOf(s) : requests[q].pc = "done")
            => sessions[s].state = FunnelOrder[Min(Cardinality(RequestsOf(s)), 4) + 1]

(***************************************************************************)
(* C6: when the completion call fails the call returns the apology and the *)
(* session's state and turns are as the call found them.                   *)
(***************************************************************************)
C6_CompletionFailureChangesNothing ==
    [][\A q \in DOMAIN requests :
          (requests[q].pc = "invoke" /\ requests'[q].pc = "done")
              => /\ requests'[q].result.response = Apology
                 /\ View(sessions', requests[q].sid) = requests[q].pre]_vars

\* A completion failure on a session that has turns and has left INITIAL.
C6_Witness ==
    \E q \in DOMAIN requests :
        /\ requests[q].outcome = "completion_error"
        /\ requests[q].pre.turns # <<>>
        /\ requests[q].pre.state = CONVERSATION_STATE_INSURANCE

(***************************************************************************)
(* C7: after N sequential calls on a session, none of which met a          *)
(* completion or persistence failure, the turns have length 2N and are     *)
(* the calls' user and assistant turns in call order.                      *)
(***************************************************************************)
\* The k-th request of the session, in arrival order.
NthRequest(session_id, k) ==
    CHOOSE q \in RequestsOf(session_id) :
        Cardinality({p \in RequestsOf(session_id) : p <= q}) = k

C7_TwoTurnsPerSequentialCall ==
    \A s \in DOMAIN sessions :
        LET n == Cardinality(RequestsOf(s))
        IN (\A q \in RequestsOf(s) :
                /\ requests[q].pc = "done"
                /\ requests[q].sequential
                /\ requests[q].outcome \notin {"completion_error", "persist_error"})
            => /\ Len(sessions[s].turns) = 2 * n
               /\ \A k \in 1..n :
                    /\ sessions[s].turns[2 * k - 1].role = "user"
                    /\ sessions[s].turns[2 * k - 1].content = requests[NthRequest(s, k)].msg
                    /\ sessions[s].turns[2 * k].role = "assistant"
                    /\ sessions[s].turns[2 * k].content =
                            requests[NthRequest(s, k)].response_text

(***************************************************************************)
(* C8: when the calls for a session overlap and every completion succeeds, *)
(* the session ends with one user turn and one assistant turn per call,    *)
(* none dropped or duplicated, in a state some serial order of the calls   *)
(* produces.                                                               *)
(***************************************************************************)
Orders(Q) ==
    {f \in [1..Cardinality(Q) -> Q] :
        \A i, j \in 1..Cardinality(Q) : i # j => f[i] # f[j]}

RECURSIVE StateAfter(_, _, _)
\* The state after the first k calls of the order, each applying its reply.
StateAfter(order, k, start) ==
    IF k = 0 THEN start
    ELSE NextState(StateAfter(order, k - 1, start),
                   ReplyText(requests[order[k]].response_text))

C8_ConcurrentCallsKeepEveryTurn ==
    \A s \in DOMAIN sessions :
        LET Q == RequestsOf(s)
            turns == sessions[s].turns
        IN (/\ \A q \in Q : requests[q].pc = "done"
            /\ \A q \in Q : requests[q].outcome # "completion_error"
            /\ \E q \in Q : ~requests[q].sequential)
            => /\ Cardinality({i \in 1..Len(turns) : turns[i].role = "user"})
                    = Cardinality(Q)
               /\ Cardinality({i \in 1..Len(turns) : turns[i].role = "assistant"})
                    = Cardinality(Q)
               /\ \A q \in Q :
                    /\ requests[q].user_at # 0
                    /\ requests[q].assistant_at # 0
                    /\ turns[requests[q].user_at].content = requests[q].msg
                    /\ turns[requests[q].assistant_at].content = requests[q].response_text
               /\ \E order \in Orders(Q) :
                    sessions[s].state =
                        StateAfter(order, Cardinality(Q), CONVERSATION_STATE_INITIAL)

(***************************************************************************)
(* C9: each call's user turn is directly followed by its own assistant     *)
(* turn, and the call built its prompt from the memory and the state left  *)
(* by all the calls whose turns precede its own.                           *)
(***************************************************************************)
\* The calls of q's session whose user turn precedes q's.
Before(q) ==
    {p \in RequestsOf(requests[q].sid) :
        requests[p].user_at # 0 /\ requests[p].user_at < requests[q].user_at}

C9_NoHalfUpdatedSession ==
    \A q \in DOMAIN requests :
        requests[q].user_at # 0 =>
            LET r == requests[q]
                turns == sessions[r.sid].turns
            IN /\ turns[r.user_at] = ConversationTurn("user", r.msg, <<>>)
               /\ IF r.assistant_at = 0
                     THEN Len(turns) = r.user_at
                     ELSE /\ r.assistant_at = r.user_at + 1
                          /\ turns[r.assistant_at].role = "assistant"
                          /\ turns[r.assistant_at].content = r.response_text
               /\ Len(r.history) = Cardinality(Before(q))
               /\ \A p \in Before(q) :
                    \E i \in 1..Len(r.history) :
                        r.history[i] = <<requests[p].msg, requests[p].response_text>>
               /\ r.chain =
                    IF Before(q) = {} THEN CONVERSATION_STATE_INITIAL
                    ELSE requests[CHOOSE p \in Before(q) :
                            \A o \in Before(q) :
                                requests[o].user_at <= requests[p].user_at].state_after

\* Two calls for one session, the second received while the first was
\* unfinished, have both appended their turns.
C9_Witness ==
    \E p, q \in DOMAIN requests :
        /\ p < q
        /\ requests[p].sid = requests[q].sid
        /\ ~requests[q].sequential
        /\ requests[p].assistant_at # 0
        /\ requests[q].assistant_at # 0

(***************************************************************************)
(* C10: when writing the snapshot fails the call still returns the reply   *)
(* with the recommendations, and the session keeps the new state and the   *)
(* two turns.                                                              *)
(***************************************************************************)
C10_PersistenceFailureStillAnswers ==
    \A q \in DOMAIN requests :
        requests[q].outcome = "persist_error" =>
            /\ requests[q].result.response = requests[q].response_text
            /\ "recommendations" \in requests[q].result.keys
            /\ requests[q].result.recommendations = requests[q].recommendations
            /\ requests[q].assistant_at = requests[q].user_at + 1
            /\ Len(sessions[requests[q].sid].turns) >= requests[q].assistant_at

(***************************************************************************)
(* C11: when a call returns a model reply, the snapshot file of its        *)
(* session holds the state, the preferences and all the turns of the       *)
(* session in memory.                                                      *)
(***************************************************************************)
C11_SnapshotHoldsWholeSession ==
    [][\A q \in DOMAIN requests :
          (requests[q].pc = "save" /\ requests'[q].outcome = "ok")
              => LET s == requests[q].sid
                 IN /\ s \in DOMAIN files'
                    /\ files'[s].session_id = s
                    /\ files'[s].state = sessions'[s].state
                    /\ files'[s].preferences = sessions'[s].preferences
                    /\ files'[s].turns = sessions'[s].turns]_vars

\* A second answered call has overwritten the snapshot of its session.
C11_Witness ==
    \E q \in DOMAIN requests :
        /\ requests[q].outcome = "ok"
        /\ requests[q].user_at = 3
        /\ Len(files[requests[q].sid].turns) = 4
        /\ files[requests[q].sid].state = CONVERSATION_STATE_ACCESSORIES

(***************************************************************************)
(* C12: a session is created by the first call with its id, as an INITIAL  *)
(* session without turns and without preferences; no step removes a        *)
(* session or replaces it (its turns are only extended).                   *)
(***************************************************************************)
IsPrefix(a, b) == Len(a) <= Len(b) /\ SubSeq(b, 1, Len(a)) = a

C12_SessionsCreatedOnceAndKept ==
    [][/\ DOMAIN sessions \subseteq DOMAIN sessions'
       /\ \A s \in DOMAIN sessions :
            /\ IsPrefix(sessions[s].turns, sessions'[s].turns)
            /\ IsPrefix(sessions[s].memory, sessions'[s].memory)
       /\ \A s \in DOMAIN sessions' \ DOMAIN sessions :
            /\ sessions'[s].state = CONVERSATION_STATE_INITIAL
            /\ sessions'[s].turns = <<>>
            /\ \A f \in DOMAIN sessions'[s].preferences \ {"features"} :
                    sessions'[s].preferences[f] = "None"
            /\ sessions'[s].preferences.features = <<>>
            /\ \E q \in DOMAIN requests :
                    /\ requests[q].sid = s
                    /\ requests[q].pc = "queued"
                    /\ requests'[q].pc # "queued"]_vars

\* A later call has begun on a session that holds the turns of an earlier one.
C12_Witness ==
    \E p, q \in DOMAIN requests :
        /\ p < q
        /\ requests[p].sid = requests[q].sid
        /\ requests[p].outcome = "ok"
        /\ requests[q].pc = "invoke"
        /\ Len(sessions[requests[q].sid].turns) = 2

(***************************************************************************)
(* C13: a call searches the catalog exactly when the session is INITIAL at *)
(* its start; in every other state it holds and returns no                 *)
(* recommendations.                                                        *)
(***************************************************************************)
C13_SearchOnlyInInitialState ==
    \A q \in DOMAIN requests :
        requests[q].pc # "queued" =>
            /\ requests[q].searched <=> requests[q].pre.state = CONVERSATION_STATE_INITIAL
            /\ requests[q].pre.state # CONVERSATION_STATE_INITIAL =>
                    /\ requests[q].recommendations = <<>>
                    /\ requests[q].result.recommendations = <<>>

\* An answered call outside INITIAL whose message would have found products.
C13_Witness ==
    \E q \in DOMAIN requests :
        /\ requests[q].outcome = "ok"
        /\ requests[q].pre.state = CONVERSATION_STATE_INSURANCE
        /\ search(requests[q].msg) # <<>>
        /\ requests[q].result.recommendations = <<>>

(***************************************************************************)
(* The engine on its own: the calls of its public methods, each run to its *)
(* end, and the catalog file replaced from outside.                        *)
(***************************************************************************)
InitSearch ==
    /\ sessions = <<>>
    /\ requests = <<>>
    /\ files = <<>>
    /\ \E catalog \in CatalogFiles, cache \in CacheFiles,
          provider_ok, provider_ok_again \in BOOLEAN :
            LET d == [catalog |-> catalog, cache |-> cache]
                r == ProductSearchEngine(d, provider_ok, provider_ok_again)
            IN  /\ ~r.raised
                /\ engine = r.engine
                /\ disk = r.disk
                /\ last = Call("__init__", <<>>, 0, FALSE, TRUE, FALSE, <<>>,
                               catalog, r.engine.products, NoCall)

\* engine.load_products()
LoadProducts(provider_ok) ==
    LET r == load_products(engine, disk, provider_ok)
        read == IF disk.catalog.kind = "ok" THEN disk.catalog.data ELSE <<>>
        failed == /\ disk.catalog.kind = "ok"
                  /\ initialize_search([engine EXCEPT !.products = read],
                                       disk, provider_ok).raised
    IN  /\ engine' = r.engine
        /\ disk' = r.disk
        /\ last' = Call("load_products", <<>>, 0, failed, r.ret, FALSE, <<>>,
                        disk.catalog, read, NoCall)
        /\ UNCHANGED conversation_vars

\* engine.refresh_index()
RefreshIndex(provider_ok) ==
    LET r == refresh_index(engine, disk, provider_ok)
    IN  /\ engine' = r.engine
        /\ disk' = r.disk
        /\ last' = Call("refresh_index", <<>>, 0,
                        initialize_search(engine, disk, provider_ok).raised,
                        ~r.raised, r.raised, <<>>, disk.catalog, engine.products, NoCall)
        /\ UNCHANGED conversation_vars

\* engine.add_product(product_data)
AddProduct(p, provider_ok) ==
    /\ Len(engine.products) < MaxProducts
    /\ LET r == add_product(engine, disk, p, provider_ok)
       IN  /\ engine' = r.engine
           /\ disk' = r.disk
           /\ last' = Call("add_product", <<>>, 0, ~r.ret, r.ret, FALSE, <<>>,
                           NotRead, Append(engine.products, p), NoCall)
    /\ UNCHANGED conversation_vars

\* engine.search(query, max_results)
Search(query, max_results, provider_ok) ==
    /\ last' = Call("search", query, max_results,
                    /\ engine.products # <<>>
                    /\ engine.product_embeddings.loaded
                    /\ ~provider_ok,
                    TRUE, FALSE,
                    search_advanced(engine, query, max_results, provider_ok),
                    NotRead, engine.products, Kept(last))
    /\ UNCHANGED <<engine, disk>>
    /\ UNCHANGED conversation_vars

\* data/products.json is replaced, removed or damaged.
EditCatalogFile(catalog) ==
    /\ catalog # disk.catalog
    /\ disk' = [disk EXCEPT !.catalog = catalog]
    /\ UNCHANGED <<engine, last>>
    /\ UNCHANGED conversation_vars

NextSearch ==
    \/ \E provider_ok \in BOOLEAN : LoadProducts(provider_ok)
    \/ \E provider_ok \in BOOLEAN : RefreshIndex(provider_ok)
    \/ \E p \in NewProducts, provider_ok \in BOOLEAN : AddProduct(p, provider_ok)
    \/ \E query \in Queries, max_results \in MaxResults, provider_ok \in BOOLEAN :
            Search(query, max_results, provider_ok)
    \/ \E catalog \in CatalogFiles : EditCatalogFile(catalog)

SpecSearch == InitSearch /\ [][NextSearch]_vars

\* The index operations of the engine.
IndexOps == {"load_products", "refresh_index", "add_product"}

\* The last call was a search that ranked by the vectors.
RankedByVectors ==
    /\ last.op = "search"
    /\ engine.products # <<>>
    /\ engine.product_embeddings.loaded
    /\ ~last.provider_failed

(***************************************************************************)
(* C14: a search made while no vectors are loaded, or whose query          *)
(* embedding fails, raises nothing and returns what search_simple returns  *)
(* for the same query and max_results.                                     *)
(***************************************************************************)
C14_FallbackIsLexicalSearch ==
    (last.op = "search" /\ (~engine.product_embeddings.loaded \/ last.provider_failed))
        => /\ ~last.raised
           /\ last.result = search_simple(engine.products, last.query, last.max_results)

\* A search whose query embedding failed, answered with a lexical result that
\* differs from the ranking by vectors.
C14_Witness ==
    /\ last.op = "search"
    /\ last.provider_failed
    /\ last.result # <<>>
    /\ last.result # RankByVectors(engine, last.query, last.max_results)

(***************************************************************************)
(* C15: when the embedding provider fails during load_products,            *)
(* refresh_index or add_product, the call raises nothing, the catalog it   *)
(* loaded stays, and searches return the lexical ranking of that catalog.  *)
(***************************************************************************)
C15_IndexFailureKeepsCatalog ==
    (last.op \in IndexOps /\ last.provider_failed)
        => /\ ~last.raised
           /\ engine.products = last.catalog
           /\ \A query \in Queries, max_results \in MaxResults, provider_ok \in BOOLEAN :
                search_advanced(engine, query, max_results, provider_ok)
                    = search_simple(last.catalog, query, max_results)

(***************************************************************************)
(* C16: after the construction or a load_products that found the catalog   *)
(* file missing or unparsable, the catalog is empty and every search       *)
(* returns nothing.                                                        *)
(***************************************************************************)
C16_UnreadableCatalogLeavesNoProducts ==
    (last.op \in {"__init__", "load_products"} /\ last.file.kind \in {"missing", "corrupt"})
        => /\ engine.products = <<>>
           /\ \A query \in Queries, max_results \in MaxResults, provider_ok \in BOOLEAN :
                /\ search_advanced(engine, query, max_results, provider_ok) = <<>>
                /\ search_simple(engine.products, query, max_results) = <<>>

(***************************************************************************)
(* C17: whenever a search ranks by the vectors, there are as many vectors  *)
(* as products in the catalog.                                             *)
(***************************************************************************)
C17_OneVectorPerProduct ==
    RankedByVectors =>
        Len(engine.product_embeddings.vectors) = Len(engine.products)

(***************************************************************************)
(* C18 as stated: after refresh_index has returned, the catalog is the     *)
(* content of the catalog file.                                            *)
(***************************************************************************)
C18_RefreshReloadsCatalog ==
    (last.op = "refresh_index" /\ ~last.raised /\ last.file.kind = "ok")
        => engine.products = last.file.data

(***************************************************************************)
(* C18 amended: refresh_index leaves the catalog in memory as it was,      *)
(* whatever the catalog file holds; when it returns with a catalog that is *)
(* not empty, there is one vector per product.                             *)
(***************************************************************************)
C18_RefreshKeepsCatalog ==
    last.op = "refresh_index"
        => /\ engine.products = last.catalog
           /\ (~last.raised /\ engine.products # <<>>)
                => /\ engine.product_embeddings.loaded
                   /\ Len(engine.product_embeddings.vectors) = Len(engine.products)

\* refresh_index has returned while the file holds a product the catalog lacks.
C18_Witness ==
    /\ last.op = "refresh_index"
    /\ ~last.raised
    /\ engine.products # <<>>
    /\ last.file.kind = "ok"
    /\ \E i \in DOMAIN last.file.data :
            \A j \in DOMAIN engine.products : engine.products[j] # last.file.data[i]

(***************************************************************************)
(* C19: a search never sees a catalog paired with the vectors of another   *)
(* catalog: the vector at each position is the vector of the product at    *)
(* that position.                                                          *)
(***************************************************************************)
C19_SearchSeesMatchingVectors ==
    (last.op = "search" /\ engine.products # <<>> /\ engine.product_embeddings.loaded)
        => engine.product_embeddings.vectors = engine.products

(***************************************************************************)
(* C20: a search that ranks by the vectors returns min(max_results,        *)
(* catalog size) products, in non-increasing similarity to the query,      *)
(* products of equal similarity in catalog order.                          *)
(***************************************************************************)
C20_TopKBySimilarity ==
    RankedByVectors =>
        /\ Len(last.result) = Min(last.max_results, Len(engine.products))
        /\ \A i, j \in DOMAIN last.result :
            i < j =>
                LET si == Similarity(last.query, last.result[i].product)
                    sj == Similarity(last.query, last.result[j].product)
                IN  /\ si >= sj
                    /\ si = sj =>
                        \E a, b \in DOMAIN engine.products :
                            /\ a < b
                            /\ engine.products[a] = last.result[i].product
                            /\ engine.products[b] = last.result[j].product

(***************************************************************************)
(* The scoring searches on their own: an engine built on a catalog file of *)
(* up to MaxProducts different products, then asked by search_simple and   *)
(* search_by_preferences.                                                  *)
(***************************************************************************)
ScoringCatalogs ==
    { c \in UNION { [1..n -> ProductIds] : n \in 0..MaxProducts } :
        \A i, j \in DOMAIN c : i # j => c[i] # c[j] }

\* The preferences mappings of the model; an absent field holds the default
\* preferences.get gives it.
PreferenceSets ==
    [ brand_preference : {<<>>, <<"Apple">>},
      budget_max : {1000, 30},
      data_usage : {"", "heavy"},
      features : {<<>>, << <<"camera">> >>},
      storage_preference : {"", "256gb"} ]

InitScoring ==
    /\ sessions = <<>>
    /\ requests = <<>>
    /\ files = <<>>
    /\ \E catalog \in ScoringCatalogs :
            LET d == [ catalog |-> [kind |-> "ok", data |-> catalog],
                       cache |-> [exists |-> FALSE, vectors |-> <<>>] ]
                r == ProductSearchEngine(d, TRUE, TRUE)
            IN  /\ engine = r.engine
                /\ disk = r.disk
                /\ last = Call("__init__", <<>>, 0, FALSE, TRUE, FALSE, <<>>,
                               d.catalog, r.engine.products, NoCall)

\* engine.search_simple(query, max_results)
SearchSimple(query, max_results) ==
    /\ last' = Call("search_simple", query, max_results, FALSE, TRUE, FALSE,
                    search_simple(engine.products, query, max_results),
                    NotRead, engine.products, NoCall)
    /\ UNCHANGED <<engine, disk>>
    /\ UNCHANGED conversation_vars

\* engine.search_by_preferences(preferences, max_results)
SearchByPreferences(preferences, max_results) ==
    /\ LET r == search_by_preferences(engine.products, preferences, max_results)
       IN  last' = [ op |-> "search_by_preferences", preferences |-> preferences,
                     max_results |-> max_results, raised |-> r.raised,
                     result |-> r.result, catalog |-> engine.products ]
    /\ UNCHANGED <<engine, disk>>
    /\ UNCHANGED conversation_vars

NextScoring ==
    \/ \E query \in Queries, max_results \in MaxResults :
            SearchSimple(query, max_results)
    \/ \E preferences \in PreferenceSets, max_results \in MaxResults :
            SearchByPreferences(preferences, max_results)

SpecScoring == InitScoring /\ [][NextScoring]_vars

\* The place of a product in the result of the last call (0: not in it).
PlaceInResult(p) ==
    IF \E i \in DOMAIN last.result : last.result[i].product = p
        THEN CHOOSE i \in DOMAIN last.result : last.result[i].product = p
        ELSE 0

\* The lexical score as the weights are listed: name 5, brand 4,
\* description 2, every feature 3, brand equality 10, a query word in the name 3.
ListedScore(p, query_lower) ==
    LET product == Product(p)
        Has(text) == Contains(Lower(text), query_lower)
        InName == IF Has(product.name) THEN 5 ELSE 0
        InBrand == IF Has(<<product.brand>>) THEN 4 ELSE 0
        InDescription == IF Has(product.description) THEN 2 ELSE 0
        InFeatures == 3 * Cardinality({ i \in DOMAIN product.features : Has(product.features[i]) })
        IsBrand == IF Lower(<<product.brand>>) = query_lower THEN 10 ELSE 0
        WordInName == IF \E i \in DOMAIN query_lower, j \in DOMAIN product.name :
                            LowerWord(product.name[j]) = query_lower[i]
                        THEN 3 ELSE 0
    IN  InName + InBrand + InDescription + InFeatures + IsBrand + WordInName

(***************************************************************************)
(* C21: search_simple returns the products of the catalog whose listed     *)
(* score is positive, each with that score, by score descending, equal     *)
(* scores in catalog order, cut to the max_results best.                   *)
(***************************************************************************)
C21_LexicalScoreAndOrder ==
    (last.op = "search_simple" /\ last.query # <<>>) =>
        LET q == Lower(last.query)
            positive == { i \in DOMAIN last.catalog : ListedScore(last.catalog[i], q) > 0 }
        IN  /\ Len(last.result) = Min(last.max_results, Cardinality(positive))
            /\ \A i \in DOMAIN last.result :
                    /\ last.result[i].score = ListedScore(last.result[i].product, q)
                    /\ last.result[i].score > 0
                    /\ \E c \in DOMAIN last.catalog : last.catalog[c] = last.result[i].product
            /\ \A i, j \in DOMAIN last.result :
                    i < j => last.result[i].score >= last.result[j].score
            /\ \A a, b \in DOMAIN last.catalog :
                    (/\ a < b
                     /\ ListedScore(last.catalog[a], q) = ListedScore(last.catalog[b], q)
                     /\ PlaceInResult(last.catalog[b]) # 0)
                        => /\ PlaceInResult(last.catalog[a]) # 0
                           /\ PlaceInResult(last.catalog[a]) < PlaceInResult(last.catalog[b])
            /\ \A c \in positive, i \in DOMAIN last.result :
                    PlaceInResult(last.catalog[c]) = 0
                        => ListedScore(last.catalog[c], q) <= last.result[i].score

\* Two products returned with the same score in catalog order, a third of the
\* catalog left out for its score of 0.
C21_Witness ==
    /\ last.op = "search_simple"
    /\ Len(last.catalog) = 3
    /\ Len(last.result) = 2
    /\ last.result[1].score = last.result[2].score
    /\ last.result[1].score = 8

(***************************************************************************)
(* C22: in the result of search_simple for a query that is the brand of a  *)
(* product, that product stands before every returned product of another   *)
(* brand.                                                                  *)
(***************************************************************************)
C22_BrandMatchRanksFirst ==
    (last.op = "search_simple" /\ last.query # <<>>) =>
        \A a, b \in DOMAIN last.catalog :
            (/\ Lower(<<Product(last.catalog[a]).brand>>) = Lower(last.query)
             /\ Lower(<<Product(last.catalog[b]).brand>>) # Lower(last.query)
             /\ PlaceInResult(last.catalog[b]) # 0)
                => /\ PlaceInResult(last.catalog[a]) # 0
                   /\ PlaceInResult(last.catalog[a]) < PlaceInResult(last.catalog[b])

\* The preferences that hold nothing but a budget_max of 30.
OnlyBudget ==
    [ brand_preference |-> <<>>, budget_max |-> 30, data_usage |-> "",
      features |-> <<>>, storage_preference |-> "" ]

(***************************************************************************)
(* C23: asked with a budget_max alone, search_by_preferences returns every *)
(* product priced at budget_max with the bonus of 5 as its score, and no   *)
(* product priced above it.                                                *)
(***************************************************************************)
C23_BudgetBoundIsInclusive ==
    (/\ last.op = "search_by_preferences"
     /\ last.preferences = OnlyBudget
     /\ last.max_results >= Len(last.catalog))
        => \A c \in DOMAIN last.catalog :
            LET price == Product(last.catalog[c]).device_cost
                place == PlaceInResult(last.catalog[c])
            IN  /\ price = last.preferences.budget_max
                    => (place # 0 /\ last.result[place].score = 5)
                /\ price > last.preferences.budget_max => place = 0

(***************************************************************************)
(* C26: search_by_preferences raises nothing, whatever fields the          *)
(* preferences hold, and returns products of positive score by score       *)
(* descending, at most max_results.                                        *)
(***************************************************************************)
C26_PreferenceSearchNeverRaises ==
    last.op = "search_by_preferences" =>
        /\ ~last.raised
        /\ Len(last.result) <= last.max_results
        /\ \A i \in DOMAIN last.result : last.result[i].score > 0
        /\ \A i, j \in DOMAIN last.result :
                i < j => last.result[i].score >= last.result[j].score

\* The last two calls were searches with the same query and max_results;
\* no call changed the catalog or the vectors between them.
SearchRepeated ==
    /\ last.op = "search"
    /\ last.before.op = "search"
    /\ last.before.query = last.query
    /\ last.before.max_results = last.max_results

C30_FailedAddLeavesCatalog ==
    (last.op = "add_product" /\ ~last.ret)
        => engine.products = SubSeq(last.catalog, 1, Len(last.catalog) - 1)

(***************************************************************************)
(* C25: the assistant turn of a call holds the recommendations of the      *)
(* search when the reply holds a markdown link to a product and none       *)
(* otherwise, the user turn holds none, and a call that returns the reply  *)
(* returns the whole search result.                                        *)
(***************************************************************************)
C25_RecommendationsLoggedOnlyWithLink ==
    \A q \in DOMAIN requests :
        LET turns == sessions[requests[q].sid].turns
            found == IF requests[q].pre.state = CONVERSATION_STATE_INITIAL
                        THEN search(requests[q].msg) ELSE <<>>
        IN  /\ requests[q].user_at # 0 =>
                    turns[requests[q].user_at].recommendations = <<>>
            /\ requests[q].assistant_at # 0 =>
                    turns[requests[q].assistant_at].recommendations =
                        IF HasProductLink(ReplyText(requests[q].response_text))
                            THEN found ELSE <<>>
            /\ requests[q].outcome = "ok" => requests[q].result.recommendations = found

\* One session with a reply without link that logged nothing and a reply with
\* a link that logged the products, both calls returning the products.
C25_Witness ==
    \E p, q \in DOMAIN requests :
        /\ requests[p].sid = requests[q].sid
        /\ requests[p].outcome = "ok" /\ requests[q].outcome = "ok"
        /\ requests[p].result.recommendations # <<>>
        /\ requests[q].result.recommendations # <<>>
        /\ sessions[requests[p].sid].turns[requests[p].assistant_at].recommendations = <<>>
        /\ sessions[requests[q].sid].turns[requests[q].assistant_at].recommendations # <<>>

(***************************************************************************)
(* C27: a call that returns the apology leaves state, turns and memory of  *)
(* the session as it found them; a call that returns the reply has applied *)
(* the transition, the memory entry and both turns.                        *)
(***************************************************************************)
C27_UpdateIsAllOrNothing ==
    [][\A q \in DOMAIN requests :
          (requests[q].pc # "done" /\ requests'[q].pc = "done") =>
              LET s == requests[q].sid
              IN  /\ requests'[q].result.response = Apology =>
                        /\ View(sessions', s) = requests[q].pre
                        /\ s \in DOMAIN sessions' =>
                                sessions'[s].memory = requests[q].history
                  /\ requests'[q].result.response # Apology =>
                        /\ sessions'[s].state = requests[q].state_after
                        /\ Len(sessions'[s].turns) = Len(requests[q].pre.turns) + 2
                        /\ Len(sessions'[s].memory) = Len(requests[q].history) + 1]_vars

\* The triggers a text holds, as the four tests of process_message find them.
HeldTriggers(text) ==
    { t \in Triggers :
        IF t = WatchTrigger THEN Contains(Lower(text), t) ELSE Contains(text, t) }

\* The place of a trigger in the order insurance, accessories, watch, closing.
Priority(t) ==
    CASE t = InsuranceTrigger -> 1
      [] t = AccessoriesTrigger -> 2
      [] t = WatchTrigger -> 3
      [] t = FinalTrigger -> 4

\* The state a trigger sends the session to.
TargetOf(t) ==
    CASE t = InsuranceTrigger -> CONVERSATION_STATE_INSURANCE
      [] t = AccessoriesTrigger -> CONVERSATION_STATE_ACCESSORIES
      [] t = WatchTrigger -> CONVERSATION_STATE_WATCH
      [] t = FinalTrigger -> CONVERSATION_STATE_FINAL

(***************************************************************************)
(* C28: a reply that holds triggers sends the session to the state of the  *)
(* held trigger that comes first in the order insurance, accessories,      *)
(* watch, closing, whatever state the session is in.                       *)
(***************************************************************************)
C28_FirstTriggerInOrderWins ==
    \A q \in DOMAIN requests :
        requests[q].state_after # "" =>
            LET held == HeldTriggers(ReplyText(requests[q].response_text))
            IN  held # {} =>
                    \E t \in held :
                        /\ \A u \in held : Priority(t) <= Priority(u)
                        /\ requests[q].state_after = TargetOf(t)

\* A reply with the watch and the closing trigger, applied to two sessions in
\* INITIAL, a state to which neither trigger belongs: both go to WATCH.
C28_Witness ==
    \E p, q \in DOMAIN requests :
        /\ p # q
        /\ requests[p].pre.state = CONVERSATION_STATE_INITIAL
        /\ requests[q].pre.state = CONVERSATION_STATE_INITIAL
        /\ requests[p].response_text \in Replies
        /\ HeldTriggers(ReplyText(requests[p].response_text)) = {WatchTrigger, FinalTrigger}
        /\ requests[q].response_text = requests[p].response_text
        /\ requests[p].state_after = CONVERSATION_STATE_WATCH
        /\ requests[q].state_after = CONVERSATION_STATE_WATCH

(***************************************************************************)
(* C29: a step changes or creates a session only as a step of a            *)
(* process_message call with that session id; get_session_info changes no  *)
(* session and answers an unknown id with 'Session not found'.             *)
(***************************************************************************)
C29_OnlyOwnSessionTouched ==
    /\ [](\A s \in SessionIds :
            /\ get_session_info(sessions, s).sessions = sessions
            /\ s \notin DOMAIN sessions =>
                    get_session_info(sessions, s).result = SessionNotFound)
    /\ [][\A s \in DOMAIN sessions' :
            (s \notin DOMAIN sessions \/ sessions'[s] # sessions[s]) =>
                \E q \in DOMAIN requests :
                    /\ requests[q].sid = s
                    /\ requests'[q].pc # requests[q].pc
                    /\ \A p \in DOMAIN requests \ {q} : requests'[p] = requests[p]]_vars

\* Two sessions, one past its first call and untouched while a call of the
\* other is under way.
C29_Witness ==
    \E p, q \in DOMAIN requests :
        /\ requests[p].sid # requests[q].sid
        /\ requests[p].outcome = "ok"
        /\ requests[q].pc = "save"
        /\ Len(sessions[requests[p].sid].turns) = 2
        /\ Len(sessions[requests[q].sid].turns) = 2

=============================================================================
